---- MODULE Spec2Model ----
(***************************************************************************)
(* GPIO / GPIOTE driver of the nRF5x family (chips/nrf5x/src/gpio.rs).     *)
(*                                                                         *)
(* The state is the GPIOTE register block (CONFIG[n], EVENTS_IN[n] and the *)
(* interrupt-enable mask behind INTENSET/INTENCLR) together with the       *)
(* client cell of every GPIOPin.  Registers are kept as 32-bit words and   *)
(* the driver's field accesses are computed on the words.                  *)
(***************************************************************************)
EXTENDS Integers, Sequences, FiniteSets, TLC

(***************************************************************************)
(* Program constants                                                       *)
(***************************************************************************)
\* gpio.rs:15  (feature nrf51: four GPIOTE channels)
NUM_GPIOTE == 4

\* gpio.rs:19
GPIO_PER_PORT == 32

(***************************************************************************)
(* Bounds of the model                                                     *)
(***************************************************************************)
\* how many pins the environment of Spec drives
NumPins == 4

\* how many pins the environment of SpecPool drives: more than NUM_GPIOTE
NumPoolPins == 5

Channels == 0 .. (NUM_GPIOTE - 1)

\* order in which pins enter the model: both ports, and the pin encoded 0
PinOrder == <<0, 1, 33, 2, 47, 31, 32, 3>>

Pins == { PinOrder[k] : k \in 1 .. NumPins }

\* every pin any environment drives
AllPins == { PinOrder[k] : k \in 1 .. (IF NumPins > NumPoolPins THEN NumPins ELSE NumPoolPins) }

\* the edge each pin of the model is enabled with: every edge occurs
EdgeOrder ==
    <<"RisingEdge", "FallingEdge", "EitherEdge", "RisingEdge",
      "FallingEdge", "EitherEdge", "RisingEdge", "FallingEdge">>

Requests == { <<PinOrder[k], EdgeOrder[k]>> : k \in 1 .. NumPins }

PoolRequests == { <<PinOrder[k], EdgeOrder[k]>> : k \in 1 .. NumPoolPins }

\* the pins of the two smaller environments: the pin encoded 0 and a pin of port 1
SmallPins == {0, 33}

SmallRequests == { <<0, "RisingEdge">>, <<33, "EitherEdge">> }

\* the pin enabled and disabled while the handler runs statement by statement
StepRequests == { <<33, "EitherEdge">> }

\* the handler runs that may preempt one call
MaxPreempt == 1

\* the pins whose calls the handler preempts
RaceRequests == { <<1, "FallingEdge">>, <<2, "RisingEdge">> }

\* the pins of them that are disabled again
RaceReleased == {1}

\* the clients whose fired() makes a call on a pin
RaceClients == {"enabler", "disabler"}

\* the clients the environment registers
Clients == {"c1", "c2"}

NoClient == "none"

(***************************************************************************)
(* Words: the bitwise operations the driver uses on 32-bit registers.      *)
(* Every mask of the driver is one bit field, (2^width - 1) << shift, so   *)
(* x & mask is computed from the field's lowest bit and its span.          *)
(***************************************************************************)
Pow2(n) == 2 ^ n

\* x & ((span - 1) * lo), for lo = 2^shift and span = 2^width
AndField(x, lo, span) == ((x \div lo) % span) * lo

\* x | bit and x & !bit for a single bit
OrBit(x, bit) == IF AndField(x, bit, 2) = 0 THEN x + bit ELSE x

ClearBit(x, bit) == x - AndField(x, bit, 2)

\* 1 << n; n is a channel index, below NUM_GPIOTE, so the u32 never wraps
Shl1(n) == Pow2(n)

(***************************************************************************)
(* tock-registers: Field, FieldValue and the ReadWrite accessors           *)
(***************************************************************************)
\* FieldValue::new(mask, shift, value): mask << shift, (value & mask) << shift
FieldValue(mask, shift, value) ==
    [lo |-> Pow2(shift), span |-> mask + 1,
     value |-> AndField(value, 1, mask + 1) * Pow2(shift)]

\* impl Add for FieldValue, on fields that do not overlap: the values are or-ed
FieldAdd3(a, b, c) == [value |-> a.value + b.value + c.value]

\* ReadWrite::write(field): the register becomes field.value
write(field) == field.value

\* ReadWrite::matches_all(field): reg & field.mask == field.value
matches_all(reg, field) == AndField(reg, field.lo, field.span) = field.value

\* ReadWrite::matches_any(field): reg & field.mask != 0
matches_any(reg, field) == AndField(reg, field.lo, field.span) # 0

\* ReadWrite::read(field): (reg & (mask << shift)) >> shift
read(reg, mask, shift) == AndField(reg, Pow2(shift), mask + 1) \div Pow2(shift)

(***************************************************************************)
(* register_bitfields! Config, EventsIn                                    *)
(***************************************************************************)
MODE_Disabled == FieldValue(3, 0, 0)

MODE_Event == FieldValue(3, 0, 1)

MODE_CLEAR == FieldValue(3, 0, 0)

PSEL_val(v) == FieldValue(63, 8, v)

PSEL_CLEAR == FieldValue(63, 8, 0)

PSEL_read(reg) == read(reg, 63, 8)

POLARITY_LoToHi == FieldValue(3, 16, 1)

POLARITY_HiToLo == FieldValue(3, 16, 2)

POLARITY_Toggle == FieldValue(3, 16, 3)

POLARITY_CLEAR == FieldValue(3, 16, 0)

POLARITY_read(reg) == read(reg, 3, 16)

EVENT_NotReady == FieldValue(1, 0, 0)

EVENT_Ready == FieldValue(1, 0, 1)

\* hil::gpio::InterruptEdge
InterruptEdge == {"RisingEdge", "FallingEdge", "EitherEdge"}

(***************************************************************************)
(* GPIOPin::new: the pin and port bytes of a Pin variant                   *)
(***************************************************************************)
GPIOPin_new(id) ==
    [pin |-> (id % GPIO_PER_PORT) % 256, port |-> (id \div GPIO_PER_PORT) % 256]

\* the u32 written to and compared with PSEL (gpio.rs:487, gpio.rs:525);
\* port and pin are bytes, so the sum stays below 2^32
encoded_pin(port, pin) == (GPIO_PER_PORT * port) + pin

VARIABLES
    config,     \* CONFIG[n], one word per channel
    event_in,   \* EVENTS_IN[n], one word per channel
    inten,      \* the interrupt-enable mask behind INTENSET / INTENCLR
    client,     \* GPIOPin.client of every pin: NoClient or a client
    last,       \* the latest call: its arguments, what it returned or invoked
    bound,      \* per pin: the channel the latest enable_interrupts bound it
                \*   to, until disable_interrupts is called on it
    streak,     \* the enable_interrupts calls made on distinct pins, with
                \*   their results, since the pool was last all Disabled
    isr,        \* where a run of Port::handle_interrupt stands: the statement
                \*   it is at, its loop index, what it has cleared and called
    fg          \* where a call of enable_interrupts / disable_interrupts
                \*   stands between its register accesses

vars == <<config, event_in, inten, client, last, bound, streak, isr, fg>>

(***************************************************************************)
(* Result<usize, ()>                                                       *)
(***************************************************************************)
Ok(i) == <<"Ok", i>>

Err == <<"Err">>

is_ok(r) == r[1] = "Ok"

(***************************************************************************)
(* GPIOPin::allocate_channel: the first channel whose MODE is Disabled     *)
(***************************************************************************)
RECURSIVE allocate_scan(_, _)
allocate_scan(cfg, i) ==
    IF i >= NUM_GPIOTE THEN Err
    ELSE IF matches_all(cfg[i], MODE_Disabled) THEN Ok(i)
    ELSE allocate_scan(cfg, i + 1)

\* a scan that stops one channel short
RECURSIVE allocate_scan_short(_, _)
allocate_scan_short(cfg, i) ==
    IF i >= NUM_GPIOTE - 1 THEN Err
    ELSE IF matches_all(cfg[i], MODE_Disabled) THEN Ok(i)
    ELSE allocate_scan_short(cfg, i + 1)

allocate_channel_short(cfg) == allocate_scan_short(cfg, 0)

allocate_channel(cfg) == allocate_scan(cfg, 0)

(***************************************************************************)
(* GPIOPin::find_channel: the first channel whose PSEL is the encoded pin  *)
(***************************************************************************)
RECURSIVE find_scan(_, _, _, _)
find_scan(cfg, self, pin, i) ==
    IF i >= NUM_GPIOTE THEN Err
    ELSE IF matches_all(cfg[i], PSEL_val(encoded_pin(self.port, pin))) THEN Ok(i)
    ELSE find_scan(cfg, self, pin, i + 1)

find_channel(cfg, self, pin) == find_scan(cfg, self, pin, 0)

(***************************************************************************)
(* Interrupt for GPIOPin: is_pending                                       *)
(***************************************************************************)
is_pending(cfg, ev, self) ==
    LET r == find_channel(cfg, self, self.pin)
    IN  IF is_ok(r) THEN matches_any(ev[r[2]], EVENT_Ready) ELSE FALSE

(***************************************************************************)
(* What a call finds before it acts (kept in `last` for the record)        *)
(***************************************************************************)
\* the channels in Event mode whose PSEL is the pin encoded id
OwnedBy(cfg, id) ==
    { i \in Channels : matches_all(cfg[i], MODE_Event) /\ PSEL_read(cfg[i]) = id }

\* the channels whose MODE is Disabled
FreeChannels(cfg) == { i \in Channels : matches_all(cfg[i], MODE_Disabled) }

\* the channels whose event flag is set
Pending(ev) == { i \in Channels : matches_any(ev[i], EVENT_Ready) }

(***************************************************************************)
(* Interrupt for GPIOPin: enable_interrupts                                *)
(***************************************************************************)
\* the rising and falling arms exchanged
polarity_of_swapped(mode) ==
    CASE mode = "EitherEdge" -> POLARITY_Toggle
      [] mode = "RisingEdge" -> POLARITY_HiToLo
      [] mode = "FallingEdge" -> POLARITY_LoToHi

polarity_of(mode) ==
    CASE mode = "EitherEdge" -> POLARITY_Toggle
      [] mode = "RisingEdge" -> POLARITY_LoToHi
      [] mode = "FallingEdge" -> POLARITY_HiToLo

enable_config(self, mode) ==
    write(FieldAdd3(MODE_Event, PSEL_val(encoded_pin(self.port, self.pin)),
                    polarity_of(mode)))

\* an enable that falls back to channel 0 when no channel is free
enable_interrupts_clobber(id, mode) ==
    LET self == GPIOPin_new(id)
        r == allocate_channel(config)
        channel == IF is_ok(r) THEN r[2] ELSE 0
    IN  /\ config' = [config EXCEPT ![channel] = enable_config(self, mode)]
        /\ inten' = OrBit(inten, Shl1(channel))
        /\ UNCHANGED <<event_in, client>>
        /\ last' = [op |-> "enable_interrupts", pin |-> id, mode |-> mode,
                    res |-> r, owned |-> OwnedBy(config, id),
                    free |-> FreeChannels(config)]

\* an enable that writes CONFIG and leaves INTENSET alone
enable_interrupts_no_intenset(id, mode) ==
    LET self == GPIOPin_new(id)
        r == allocate_channel(config)
    IN  /\ IF is_ok(r)
           THEN config' = [config EXCEPT ![r[2]] = enable_config(self, mode)]
           ELSE UNCHANGED config
        /\ UNCHANGED <<event_in, inten, client>>
        /\ last' = [op |-> "enable_interrupts", pin |-> id, mode |-> mode,
                    res |-> r, owned |-> OwnedBy(config, id),
                    free |-> FreeChannels(config)]

enable_interrupts(id, mode) ==
    LET self == GPIOPin_new(id)
        r == allocate_channel(config)
    IN  /\ IF is_ok(r)
           THEN /\ config' = [config EXCEPT ![r[2]] = enable_config(self, mode)]
                /\ inten' = OrBit(inten, Shl1(r[2]))
           ELSE UNCHANGED <<config, inten>>
        /\ UNCHANGED <<event_in, client>>
        /\ last' = [op |-> "enable_interrupts", pin |-> id, mode |-> mode,
                    res |-> r, owned |-> OwnedBy(config, id),
                    free |-> FreeChannels(config)]

(***************************************************************************)
(* Interrupt for GPIOPin: disable_interrupts                               *)
(***************************************************************************)
disable_config == write(FieldAdd3(MODE_CLEAR, PSEL_CLEAR, POLARITY_CLEAR))

\* a disable that clears every interrupt-enable bit
disable_interrupts_all(id) ==
    LET self == GPIOPin_new(id)
        r == find_channel(config, self, self.pin)
    IN  /\ IF is_ok(r)
           THEN /\ config' = [config EXCEPT ![r[2]] = disable_config]
                /\ inten' = 0
           ELSE UNCHANGED <<config, inten>>
        /\ UNCHANGED <<event_in, client>>
        /\ last' = [op |-> "disable_interrupts", pin |-> id,
                    res |-> r, owned |-> OwnedBy(config, id),
                    free |-> FreeChannels(config)]

disable_interrupts(id) ==
    LET self == GPIOPin_new(id)
        r == find_channel(config, self, self.pin)
    IN  /\ IF is_ok(r)
           THEN /\ config' = [config EXCEPT ![r[2]] = disable_config]
                /\ inten' = ClearBit(inten, Shl1(r[2]))
           ELSE UNCHANGED <<config, inten>>
        /\ UNCHANGED <<event_in, client>>
        /\ last' = [op |-> "disable_interrupts", pin |-> id,
                    res |-> r, owned |-> OwnedBy(config, id),
                    free |-> FreeChannels(config)]

(***************************************************************************)
(* Interrupt for GPIOPin: set_client                                       *)
(***************************************************************************)
\* a cell that keeps the first client it was given
set_client_keep_first(id, c) ==
    /\ client' = IF client[id] = NoClient THEN [client EXCEPT ![id] = c] ELSE client
    /\ UNCHANGED <<config, event_in, inten>>
    /\ last' = [op |-> "set_client", pin |-> id, client |-> c, prev |-> client[id]]

set_client(id, c) ==
    /\ client' = [client EXCEPT ![id] = c]
    /\ UNCHANGED <<config, event_in, inten>>
    /\ last' = [op |-> "set_client", pin |-> id, client |-> c, prev |-> client[id]]

(***************************************************************************)
(* GPIOPin::handle_interrupt: client.map(|client| client.fired())          *)
(* The calls of fired() are appended to the record of the handler run.     *)
(***************************************************************************)
\* a pin that calls fired() whether or not a client is set
GPIOPin_handle_interrupt_always(cl, pin, channel, calls) ==
    Append(calls, [channel |-> channel, pin |-> pin, client |-> cl[pin]])

GPIOPin_handle_interrupt(cl, pin, channel, calls) ==
    IF cl[pin] # NoClient
    THEN Append(calls, [channel |-> channel, pin |-> pin, client |-> cl[pin]])
    ELSE calls

(***************************************************************************)
(* Port::handle_interrupt: one pass over EVENTS_IN[0 .. NUM_GPIOTE)        *)
(***************************************************************************)
RECURSIVE handle_scan(_, _, _, _, _)
handle_scan(cfg, cl, ev, calls, i) ==
    IF i >= NUM_GPIOTE THEN [event_in |-> ev, calls |-> calls]
    ELSE IF matches_any(ev[i], EVENT_Ready)
         THEN LET pin == PSEL_read(cfg[i])
              IN  handle_scan(cfg, cl, [ev EXCEPT ![i] = write(EVENT_NotReady)],
                              GPIOPin_handle_interrupt(cl, pin, i, calls), i + 1)
         ELSE handle_scan(cfg, cl, ev, calls, i + 1)

Port_handle_interrupt ==
    LET out == handle_scan(config, client, event_in, <<>>, 0)
    IN  /\ event_in' = out.event_in
        /\ UNCHANGED <<config, inten, client>>
        /\ last' = [op |-> "handle_interrupt", fired |-> Pending(event_in),
                    calls |-> out.calls]

(***************************************************************************)
(* The GPIOTE hardware: a channel in Event mode with a polarity latches    *)
(* EVENTS_IN[n] when the configured edge occurs on its pin.                *)
(***************************************************************************)
HwEvent(i) ==
    /\ matches_all(config[i], MODE_Event)
    /\ POLARITY_read(config[i]) # 0
    /\ ~ matches_any(event_in[i], EVENT_Ready)
    /\ event_in' = [event_in EXCEPT ![i] = write(EVENT_Ready)]
    /\ UNCHANGED <<config, inten, client>>
    /\ last' = [op |-> "hw_event", channel |-> i]

(***************************************************************************)
(* The system after reset: every register is 0, no pin has a client        *)
(***************************************************************************)
Init ==
    /\ config = [i \in Channels |-> 0]
    /\ event_in = [i \in Channels |-> 0]
    /\ inten = 0
    /\ client = [p \in AllPins |-> NoClient]
    /\ last = [op |-> "reset"]
    /\ bound = [p \in AllPins |-> {}]
    /\ streak = [ok |-> TRUE, pins |-> <<>>, res |-> <<>>]
    /\ isr = [pc |-> "idle", relatched |-> {}]
    /\ fg = [pc |-> "idle"]

(***************************************************************************)
(* History of the calls, written after each step from the record in last.  *)
(*   bound:  per pin, the channel the latest enable_interrupts call bound  *)
(*           the pin to, until disable_interrupts is called on that pin    *)
(*   streak: the run of enable_interrupts calls on distinct pins, with     *)
(*           their results, since the pool was last all Disabled; a call   *)
(*           on a pin already in the run, or a disable_interrupts call     *)
(*           that leaves a channel allocated, ends the run                 *)
(***************************************************************************)
SeqRange(q) == { q[k] : k \in 1 .. Len(q) }

NoStreak == [ok |-> FALSE, pins |-> <<>>, res |-> <<>>]

EmptyStreak == [ok |-> TRUE, pins |-> <<>>, res |-> <<>>]

TrackBound ==
    bound' =
        IF last'.op = "enable_interrupts" /\ is_ok(last'.res)
        THEN [bound EXCEPT ![last'.pin] = {last'.res[2]}]
        ELSE IF last'.op = "disable_interrupts"
        THEN [bound EXCEPT ![last'.pin] = {}]
        ELSE bound

TrackStreak ==
    streak' =
        IF last'.op = "enable_interrupts"
        THEN IF streak.ok /\ last'.pin \notin SeqRange(streak.pins)
             THEN [ok |-> TRUE, pins |-> Append(streak.pins, last'.pin),
                   res |-> Append(streak.res, last'.res)]
             ELSE NoStreak
        ELSE IF last'.op = "disable_interrupts"
        THEN IF FreeChannels(config') = Channels THEN EmptyStreak ELSE NoStreak
        ELSE streak

\* what each specification records of the history; its calls and handler
\* runs are whole steps, so none is ever in progress
NoHistory == UNCHANGED <<bound, streak, isr, fg>>

BoundHistory == TrackBound /\ UNCHANGED <<streak, isr, fg>>

StreakHistory == TrackStreak /\ UNCHANGED <<bound, isr, fg>>

(***************************************************************************)
(* Spec: NumPins pins, each enabled with its edge; edges occur on the pins *)
(***************************************************************************)
Next ==
    \/ \E rq \in Requests : enable_interrupts(rq[1], rq[2]) /\ NoHistory
    \/ \E p \in Pins : disable_interrupts(p) /\ NoHistory
    \/ Port_handle_interrupt /\ NoHistory
    \/ \E i \in Channels : HwEvent(i) /\ NoHistory

Spec == Init /\ [][Next]_vars

(***************************************************************************)
(* SpecPool: NumPoolPins pins, more than there are channels; no edge       *)
(* occurs on a pin                                                         *)
(***************************************************************************)
NextPool ==
    \/ \E rq \in PoolRequests : enable_interrupts(rq[1], rq[2]) /\ StreakHistory
    \/ \E rq \in PoolRequests : disable_interrupts(rq[1]) /\ StreakHistory
    \/ Port_handle_interrupt /\ StreakHistory

SpecPool == Init /\ [][NextPool]_vars

(***************************************************************************)
(* SpecEdges: one pin of each port, enabled with every edge                *)
(***************************************************************************)
NextEdges ==
    \/ \E p \in SmallPins, mode \in InterruptEdge :
          enable_interrupts(p, mode) /\ NoHistory
    \/ \E p \in SmallPins : disable_interrupts(p) /\ NoHistory
    \/ Port_handle_interrupt /\ NoHistory
    \/ \E i \in Channels : HwEvent(i) /\ NoHistory

SpecEdges == Init /\ [][NextEdges]_vars

(***************************************************************************)
(* SpecBind: one pin of each port; the binding of each pin is recorded     *)
(***************************************************************************)
NextBind ==
    \/ \E rq \in SmallRequests : enable_interrupts(rq[1], rq[2]) /\ BoundHistory
    \/ \E p \in SmallPins : disable_interrupts(p) /\ BoundHistory
    \/ Port_handle_interrupt /\ BoundHistory
    \/ \E i \in Channels : HwEvent(i) /\ BoundHistory

SpecBind == Init /\ [][NextBind]_vars

(***************************************************************************)
(* SpecRouter: one pin of each port, with clients registered               *)
(***************************************************************************)
NextRouter ==
    \/ \E rq \in SmallRequests : enable_interrupts(rq[1], rq[2]) /\ NoHistory
    \/ \E p \in SmallPins : disable_interrupts(p) /\ NoHistory
    \/ \E p \in SmallPins, c \in Clients : set_client(p, c) /\ NoHistory
    \/ Port_handle_interrupt /\ NoHistory
    \/ \E i \in Channels : HwEvent(i) /\ NoHistory

SpecRouter == Init /\ [][NextRouter]_vars


(***************************************************************************)
(* Port::handle_interrupt, one register access at a step (gpio.rs:566-573) *)
(*   test:     ev.matches_any(EVENT::Ready)                                *)
(*   clear:    ev.write(EVENT::NotReady)                                   *)
(*   read:     pin = config[i].read(PSEL)                                  *)
(*   dispatch: self.pins[pin].handle_interrupt()                           *)
(* isr records, for the run in progress: carried, the flags set on entry   *)
(* that the hardware latched again during the run before, with no call in  *)
(* between; cleared, the channels whose flag the run has written NotReady; *)
(* relatched, those of them the hardware has set again since.              *)
(***************************************************************************)
\* the callback dispatched before the flag is written
isr_after_dispatch_first(pc) ==
    CASE pc = "test" -> "read"
      [] pc = "read" -> "dispatch"
      [] pc = "dispatch" -> "clear"
      [] pc = "clear" -> "test"

\* the statement that follows pc in the loop body
isr_after(pc) ==
    CASE pc = "test" -> "clear"
      [] pc = "clear" -> "read"
      [] pc = "read" -> "dispatch"
      [] pc = "dispatch" -> "test"

\* a write that clears the flag of every channel
isr_clear_all(ev, i) == [j \in Channels |-> write(EVENT_NotReady)]

\* ev.write(EVENT::NotReady) on EVENTS_IN[i]
isr_clear(ev, i) == [ev EXCEPT ![i] = write(EVENT_NotReady)]

IsrIdle == [pc |-> "idle", relatched |-> {}]

\* the next statement; the loop index advances when the body is done
IsrAdvance(r) ==
    [r EXCEPT !.pc = isr_after(isr.pc),
              !.i = IF isr_after(isr.pc) = "test" THEN isr.i + 1 ELSE isr.i]

IsrEnter ==
    /\ isr.pc = "idle"
    /\ isr' = [pc |-> "test", i |-> 0, pin |-> 0,
               carried |-> isr.relatched \cap Pending(event_in),
               cleared |-> {}, relatched |-> {}, calls |-> <<>>]
    /\ last' = [op |-> "enter_handle_interrupt"]
    /\ UNCHANGED <<config, event_in, inten, client, bound, streak, fg>>

IsrTest ==
    /\ isr.pc = "test"
    /\ isr.i < NUM_GPIOTE
    /\ isr' = IF matches_any(event_in[isr.i], EVENT_Ready)
              THEN IsrAdvance(isr)
              ELSE [isr EXCEPT !.i = isr.i + 1]
    /\ UNCHANGED <<config, event_in, inten, client, last, bound, streak, fg>>

IsrClear ==
    /\ isr.pc = "clear"
    /\ event_in' = isr_clear(event_in, isr.i)
    /\ isr' = IsrAdvance([isr EXCEPT !.cleared = @ \cup {isr.i},
                                     !.relatched = @ \ {isr.i}])
    /\ UNCHANGED <<config, inten, client, last, bound, streak, fg>>

IsrRead ==
    /\ isr.pc = "read"
    /\ isr' = IsrAdvance([isr EXCEPT !.pin = PSEL_read(config[isr.i])])
    /\ UNCHANGED <<config, event_in, inten, client, last, bound, streak, fg>>

IsrDispatch ==
    /\ isr.pc = "dispatch"
    /\ isr' = IsrAdvance([isr EXCEPT !.calls =
                  GPIOPin_handle_interrupt(client, isr.pin, isr.i, isr.calls)])
    /\ UNCHANGED <<config, event_in, inten, client, last, bound, streak, fg>>

IsrReturn ==
    /\ isr.pc = "test"
    /\ isr.i >= NUM_GPIOTE
    /\ isr' = [pc |-> "idle", relatched |-> isr.relatched]
    /\ last' = [op |-> "handle_interrupt", fired |-> isr.cleared,
                calls |-> isr.calls,
                carried |-> isr.carried, relatched |-> isr.relatched]
    /\ UNCHANGED <<config, event_in, inten, client, bound, streak, fg>>

\* an edge while the handler runs: one on a channel the run has cleared
\* latches the flag again
IsrHwEvent(i) ==
    /\ HwEvent(i)
    /\ isr' = IF isr.pc # "idle" /\ i \in isr.cleared
              THEN [isr EXCEPT !.relatched = @ \cup {i}]
              ELSE isr
    /\ UNCHANGED <<bound, streak, fg>>

\* a call made while no handler runs
BetweenRuns ==
    /\ isr.pc = "idle"
    /\ isr' = IsrIdle
    /\ UNCHANGED <<bound, streak, fg>>

(***************************************************************************)
(* SpecSteps: pin P1.01 is enabled and disabled, P0.00 and P1.01 are given *)
(* a client; the handler runs statement by statement and edges occur       *)
(* between its statements; calls are made between its runs                 *)
(***************************************************************************)
NextSteps ==
    \/ \E rq \in StepRequests : enable_interrupts(rq[1], rq[2]) /\ BetweenRuns
    \/ \E rq \in StepRequests : disable_interrupts(rq[1]) /\ BetweenRuns
    \/ \E p \in SmallPins : set_client(p, "c1") /\ BetweenRuns
    \/ IsrEnter
    \/ IsrTest
    \/ IsrClear
    \/ IsrRead
    \/ IsrDispatch
    \/ IsrReturn
    \/ \E i \in Channels : IsrHwEvent(i)

SpecSteps == Init /\ [][NextSteps]_vars

(***************************************************************************)
(* Clients that reconfigure: what fired() calls (hil::gpio::Client::fired, *)
(* called at gpio.rs:535).  The clients c1 and c2 call nothing.            *)
(***************************************************************************)
NoCall == [op |-> "none"]

fired(c) ==
    CASE c = "enabler" ->
            [op |-> "enable_interrupts", pin |-> 33, mode |-> "EitherEdge"]
      [] c = "disabler" -> [op |-> "disable_interrupts", pin |-> 33]
      [] OTHER -> NoCall

(***************************************************************************)
(* enable_interrupts and disable_interrupts as functions of the registers  *)
(* st = [config, inten]: a call that runs from its scan to its last write  *)
(* with nothing in between                                                 *)
(***************************************************************************)
enable_apply(st, id, mode) ==
    LET self == GPIOPin_new(id)
        r == allocate_channel(st.config)
    IN  IF is_ok(r)
        THEN [config |-> [st.config EXCEPT ![r[2]] = enable_config(self, mode)],
              inten |-> OrBit(st.inten, Shl1(r[2]))]
        ELSE st

disable_apply(st, id) ==
    LET self == GPIOPin_new(id)
        r == find_channel(st.config, self, self.pin)
    IN  IF is_ok(r)
        THEN [config |-> [st.config EXCEPT ![r[2]] = disable_config],
              inten |-> ClearBit(st.inten, Shl1(r[2]))]
        ELSE st

apply_call(st, o) ==
    CASE o.op = "enable_interrupts" -> enable_apply(st, o.pin, o.mode)
      [] o.op = "disable_interrupts" -> disable_apply(st, o.pin)
      [] OTHER -> st

(***************************************************************************)
(* Port::handle_interrupt with clients that reconfigure, one register      *)
(* access at a step (IsrTest and IsrRead are the steps above).  The call   *)
(* that fired() makes runs inside the dispatch step: the handler is not    *)
(* preempted, and an edge between two accesses of that call leaves what an *)
(* edge just before or just after the step leaves, since the hardware      *)
(* looks at CONFIG only and the call never reads EVENTS_IN.                *)
(* A run may start while a call is in progress, between two of its         *)
(* register accesses; the call goes on when the run has returned.          *)
(***************************************************************************)
RaceEnter ==
    /\ isr.pc = "idle"
    /\ fg.pc # "idle" => fg.runs < MaxPreempt
    /\ isr' = [pc |-> "test", i |-> 0, pin |-> 0]
    /\ fg' = IF fg.pc = "idle" THEN fg ELSE [fg EXCEPT !.runs = @ + 1]
    /\ last' = [op |-> "enter_handle_interrupt"]
    /\ UNCHANGED <<config, event_in, inten, client, bound, streak>>

RaceClear ==
    /\ isr.pc = "clear"
    /\ event_in' = isr_clear(event_in, isr.i)
    /\ isr' = IsrAdvance(isr)
    /\ UNCHANGED <<config, inten, client, last, bound, streak, fg>>

\* fg.cb collects the calls made by the clients of the runs that preempted
\* the call in progress
RaceDispatch ==
    LET o == IF client[isr.pin] # NoClient THEN fired(client[isr.pin]) ELSE NoCall
        st == apply_call([config |-> config, inten |-> inten], o)
    IN  /\ isr.pc = "dispatch"
        /\ config' = st.config
        /\ inten' = st.inten
        /\ isr' = IsrAdvance(isr)
        /\ fg' = IF fg.pc = "idle" \/ o = NoCall THEN fg
                 ELSE [fg EXCEPT !.cb = Append(@, o)]
        /\ UNCHANGED <<event_in, client, last, bound, streak>>

RaceReturn ==
    /\ isr.pc = "test"
    /\ isr.i >= NUM_GPIOTE
    /\ isr' = IsrIdle
    /\ last' = [op |-> "return_handle_interrupt"]
    /\ UNCHANGED <<config, event_in, inten, client, bound, streak, fg>>

(***************************************************************************)
(* enable_interrupts and disable_interrupts, one register access at a step *)
(*   scan:   allocate_channel / find_channel, one CONFIG[i] read at a step *)
(*   config: regs.config[channel].write(..)                                *)
(*   inten:  regs.intenset.set(..) / regs.intenclr.set(..)                 *)
(* fg records the call in progress: the index its scan is at, the channel  *)
(* the scan returned, the registers as the call found them, the handler    *)
(* runs that preempted it and the calls their clients made.  A call takes  *)
(* its steps while no handler runs.                                        *)
(***************************************************************************)
FgIdle == [pc |-> "idle"]

\* the test the scan of the call makes on one CONFIG word
scan_hit(call, word) ==
    IF call.op = "enable_interrupts"
    THEN matches_all(word, MODE_Disabled)
    ELSE LET self == GPIOPin_new(call.pin)
         IN  matches_all(word, PSEL_val(encoded_pin(self.port, self.pin)))

\* the scan of the call f reads CONFIG[f.i]: return Ok(f.i), go on to the
\* next index, or return Err after the last one
FgScan(f) ==
    /\ isr.pc = "idle"
    /\ IF scan_hit(f.call, config[f.i])
       THEN /\ fg' = [f EXCEPT !.pc = "config", !.res = Ok(f.i)]
            /\ UNCHANGED last
       ELSE IF f.i + 1 < NUM_GPIOTE
       THEN /\ fg' = [f EXCEPT !.i = f.i + 1]
            /\ UNCHANGED last
       ELSE /\ fg' = FgIdle
            /\ last' = [op |-> f.call.op, call |-> f.call, res |-> Err]
    /\ UNCHANGED <<config, event_in, inten, client, bound, streak, isr>>

\* a call begins with the first read of its scan
FgCall(call) ==
    [pc |-> "scan", i |-> 0, call |-> call, res |-> Err,
     start |-> [config |-> config, inten |-> inten], cb |-> <<>>, runs |-> 0]

FgEnableScan(id, mode) ==
    /\ fg.pc = "idle"
    /\ FgScan(FgCall([op |-> "enable_interrupts", pin |-> id, mode |-> mode]))

FgDisableScan(id) ==
    /\ fg.pc = "idle"
    /\ FgScan(FgCall([op |-> "disable_interrupts", pin |-> id]))

FgScanNext ==
    /\ fg.pc = "scan"
    /\ FgScan(fg)

FgConfigWrite ==
    /\ isr.pc = "idle"
    /\ fg.pc = "config"
    /\ config' = [config EXCEPT ![fg.res[2]] =
                     IF fg.call.op = "enable_interrupts"
                     THEN enable_config(GPIOPin_new(fg.call.pin), fg.call.mode)
                     ELSE disable_config]
    /\ fg' = [fg EXCEPT !.pc = "inten"]
    /\ UNCHANGED <<event_in, inten, client, last, bound, streak, isr>>

FgIntenWrite ==
    /\ isr.pc = "idle"
    /\ fg.pc = "inten"
    /\ inten' = IF fg.call.op = "enable_interrupts"
                THEN OrBit(inten, Shl1(fg.res[2]))
                ELSE ClearBit(inten, Shl1(fg.res[2]))
    /\ fg' = FgIdle
    /\ last' = [op |-> fg.call.op, call |-> fg.call, res |-> fg.res]
    /\ UNCHANGED <<config, event_in, client, bound, streak, isr>>

\* set_client is a call too: it is made when no other call is in progress
FgSetClient(id, c) ==
    /\ isr.pc = "idle"
    /\ fg.pc = "idle"
    /\ set_client(id, c)
    /\ UNCHANGED <<bound, streak, isr, fg>>

(***************************************************************************)
(* SpecRace: calls on P0.01 and P0.02 run access by access; the handler    *)
(* may run between any two accesses of a call, edges occur between any two *)
(* accesses, and the client of P0.02 calls enable_interrupts or            *)
(* disable_interrupts on P1.01.  The caller never enables a pin that       *)
(* already owns a channel.                                                 *)
(***************************************************************************)
RaceEnable(id, mode) ==
    /\ OwnedBy(config, id) = {}
    /\ FgEnableScan(id, mode)

NextRace ==
    \/ \E rq \in RaceRequests : RaceEnable(rq[1], rq[2])
    \/ \E p \in RaceReleased : FgDisableScan(p)
    \/ FgScanNext
    \/ FgConfigWrite
    \/ FgIntenWrite
    \/ \E c \in RaceClients : FgSetClient(2, c)
    \/ RaceEnter
    \/ IsrTest
    \/ RaceClear
    \/ IsrRead
    \/ RaceDispatch
    \/ RaceReturn
    \/ \E i \in Channels : HwEvent(i) /\ NoHistory

SpecRace == Init /\ [][NextRace]_vars

(***************************************************************************)
(* Properties                                                              *)
(***************************************************************************)
Min(S) == CHOOSE x \in S : \A y \in S : x <= y

\* every value PSEL can hold
PselValues == 0 .. 63

\* the channels that are not Disabled and whose PSEL is id
ActiveFor(id) ==
    { i \in Channels : ~ matches_all(config[i], MODE_Disabled) /\ PSEL_read(config[i]) = id }

\* find_channel as the pin with this id calls it
find_for(id) == find_channel(config, GPIOPin_new(id), GPIOPin_new(id).pin)

InterruptEnabled(i) == AndField(inten, Shl1(i), 2) # 0

\* C1: in every reachable state, for every encoded pin id at most one channel
\* is not Disabled and has that id as its owner (PSEL).
C1_SingleOwner == \A id \in PselValues : Cardinality(ActiveFor(id)) <= 1

\* C2: in a run of enable_interrupts calls on distinct pins that starts from
\* an all-Disabled pool, with no disable_interrupts in between, the first
\* NUM_GPIOTE calls each get a channel and every later call gets none.
C2_PoolExhaustion ==
    streak.ok =>
        \A k \in 1 .. Len(streak.pins) :
            IF k <= NUM_GPIOTE THEN is_ok(streak.res[k]) ELSE streak.res[k] = Err

\* the (NUM_GPIOTE + 1)-th call of such a run has been made
C2_Witness ==
    /\ streak.ok
    /\ Len(streak.pins) = NUM_GPIOTE + 1
    /\ last.op = "enable_interrupts"
    /\ last.res = Err

\* allocate_channel returns the lowest Disabled index, Err only when none is
C3_AllocateLowest ==
    allocate_channel(config) =
        IF FreeChannels(config) = {} THEN Err ELSE Ok(Min(FreeChannels(config)))

\* C3: allocate_channel returns the smallest Disabled index, and Err only
\* when no channel is Disabled; and after a pin that owns channel i in a
\* full pool is disabled, the next enable_interrupts on another pin is bound
\* to channel i.
C3_LowestFree ==
    /\ []C3_AllocateLowest
    /\ [][ ( /\ last.op = "disable_interrupts"
             /\ last.free = {}
             /\ last'.op = "enable_interrupts"
             /\ last'.pin # last.pin )
           => \A i \in last.owned : last'.res = Ok(i) ]_vars

\* C4: once enable_interrupts(p) has bound p to channel i, find_channel for
\* p returns Ok(i) in every later state until disable_interrupts(p) is called.
C4_StableLookup == \A p \in AllPins : \A i \in bound[p] : find_for(p) = Ok(i)

\* C5: after disable_interrupts(p) has released a channel that p owned,
\* find_channel for p returns Err.
C5_ReleaseThenFind ==
    ( /\ last.op = "disable_interrupts"
      /\ is_ok(last.res)
      /\ last.res[2] \in last.owned )
    => find_for(last.pin) = Err

\* the pins whose callback the handler run of `last` owed a call: the owners
\* of the channels in Event mode that were pending, those with a client
C6_Owners ==
    { PSEL_read(config[i]) :
        i \in { j \in last.fired : /\ matches_all(config[j], MODE_Event)
                                   /\ client[PSEL_read(config[j])] # NoClient } }

\* C6: when Port::handle_interrupt returns, every channel that was pending is
\* clear, and the callback of the pin that owns a channel that was pending
\* has been invoked exactly once during the call.
C6_Demultiplex ==
    last.op = "handle_interrupt" =>
        /\ \A i \in last.fired : ~ matches_any(event_in[i], EVENT_Ready)
        /\ \A p \in C6_Owners :
              Cardinality({ k \in 1 .. Len(last.calls) : last.calls[k].pin = p }) = 1

\* C7: after disable_interrupts(p) returns, no channel is in Event mode with
\* owner p and no interrupt-enable bit is set for a channel that was bound
\* to p.
C7_DisablePost ==
    last.op = "disable_interrupts" =>
        /\ OwnedBy(config, last.pin) = {}
        /\ \A i \in last.owned : ~ InterruptEnabled(i)

\* C8: is_pending is false for every pin that owns no active channel.
C8_NotPending ==
    \A p \in AllPins :
        ActiveFor(p) = {} => ~ is_pending(config, event_in, GPIOPin_new(p))

\* the POLARITY value the claim names for each edge
C9_Polarity(mode) ==
    CASE mode = "RisingEdge" -> 1
      [] mode = "FallingEdge" -> 2
      [] mode = "EitherEdge" -> 3

\* C9: when a channel is Disabled, enable_interrupts(p, edge) is bound to the
\* lowest Disabled channel i (channel 0 from the empty pool), leaves in
\* CONFIG[i] exactly MODE = Event, PSEL = 32 * port + offset and the polarity
\* of the edge, and sets interrupt-enable bit i.
C9_SuccessfulEnable ==
    (last.op = "enable_interrupts" /\ last.free # {}) =>
        LET i == Min(last.free)
            owner == (32 * (last.pin \div 32)) + (last.pin % 32)
        IN  /\ last.res = Ok(i)
            /\ (last.free = Channels => i = 0)
            /\ config[i] = 1 + (256 * owner) + (65536 * C9_Polarity(last.mode))
            /\ InterruptEnabled(i)

\* a falling-edge enable of a port-1 pin that found channel 2 free
C9_Witness ==
    /\ last.op = "enable_interrupts"
    /\ last.pin = 33
    /\ last.mode = "FallingEdge"
    /\ last.res = Ok(2)
    /\ last.free = {2}

\* C10: when no channel is Disabled, enable_interrupts changes no CONFIG[n],
\* no EVENTS_IN[n] and no interrupt-enable bit, and a pin that owned no
\* channel still owns none.
C10_FailedEnable ==
    [][ (last'.op = "enable_interrupts" /\ FreeChannels(config) = {})
        => /\ last'.res = Err
           /\ config' = config
           /\ event_in' = event_in
           /\ inten' = inten
           /\ (OwnedBy(config, last'.pin) = {} => OwnedBy(config', last'.pin) = {})
      ]_vars

\* an enable that failed on a full pool, for a pin that owned nothing, with
\* an event pending
C10_Witness ==
    /\ last.op = "enable_interrupts"
    /\ last.res = Err
    /\ last.free = {}
    /\ last.owned = {}
    /\ Pending(event_in) # {}

\* C11: calling disable_interrupts(p) twice in a row raises no error, and
\* the second call leaves every CONFIG[n] and every interrupt-enable bit as
\* the first call left them.
C11_DisableIdempotent ==
    [][ ( /\ last.op = "disable_interrupts"
          /\ last'.op = "disable_interrupts"
          /\ last'.pin = last.pin )
        => /\ config' = config
           /\ inten' = inten ]_vars

\* the calls of the handler run of `last` made for channel i
CallsFor(i) == { k \in 1 .. Len(last.calls) : last.calls[k].channel = i }

\* C12: when a channel owned by a pin with no client was pending,
\* Port::handle_interrupt returns with that channel's flag clear and has
\* called no client for that channel.
C12_NoConsumer ==
    last.op = "handle_interrupt" =>
        \A i \in last.fired :
            ( /\ matches_all(config[i], MODE_Event)
              /\ client[PSEL_read(config[i])] = NoClient )
            => /\ ~ matches_any(event_in[i], EVENT_Ready)
               /\ CallsFor(i) = {}

\* a handler run that found pending a channel owned by a pin with no client
\* and a channel owned by a pin with one
C12_Witness ==
    /\ last.op = "handle_interrupt"
    /\ \E i \in last.fired :
          /\ matches_all(config[i], MODE_Event)
          /\ client[PSEL_read(config[i])] = NoClient
    /\ Len(last.calls) > 0

\* C13: when a Disabled channel was pending, Port::handle_interrupt returns
\* with that channel's flag clear and has called no pin's client for that
\* channel, the client of the pin with encoded id 0 included.
C13_UnownedIgnored ==
    last.op = "handle_interrupt" =>
        \A i \in last.fired :
            matches_all(config[i], MODE_Disabled)
            => /\ ~ matches_any(event_in[i], EVENT_Ready)
               /\ CallsFor(i) = {}

\* C14: after disable_interrupts(p) has released channel i, the pending flag
\* of channel i is clear.
C14_DisableClearsPending ==
    ( /\ last.op = "disable_interrupts"
      /\ is_ok(last.res)
      /\ last.res[2] \in last.owned )
    => ~ matches_any(event_in[last.res[2]], EVENT_Ready)

\* every call of a handler run went to the client the pin holds
C15_Registered ==
    last.op = "handle_interrupt" =>
        \A k \in 1 .. Len(last.calls) :
            last.calls[k].client = client[last.calls[k].pin]

\* C15: a pin holds one client; set_client replaces it, so that a firing
\* calls the client set last and never the one before; and no
\* enable_interrupts, disable_interrupts, handle_interrupt or hardware step
\* changes the client of any pin.
C15_CallbackRegistration ==
    /\ []C15_Registered
    /\ [][ IF last'.op = "set_client"
           THEN client' = [client EXCEPT ![last'.pin] = last'.client]
           ELSE client' = client ]_vars

\* set_client(c2) has replaced c1 on a pin whose channel is pending
C15_Witness ==
    /\ last.op = "set_client"
    /\ last.prev = "c1"
    /\ last.client = "c2"
    /\ client[last.pin] = "c2"
    /\ OwnedBy(config, last.pin) \cap Pending(event_in) # {}

\* a call of a handler run went to a pin that owns a channel only if one of
\* the pin's channels was pending
C19_Dispatched ==
    last.op = "handle_interrupt" =>
        \A k \in 1 .. Len(last.calls) :
            LET mine == OwnedBy(config, last.calls[k].pin)
            IN  mine # {} => mine \cap last.fired # {}

\* C19: Port::handle_interrupt changes no CONFIG[n] and no interrupt-enable
\* bit, leaves the flag of every channel that was not pending as it was, and
\* calls no client of a pin whose channel was not pending.
C19_RouterFrame ==
    /\ []C19_Dispatched
    /\ [][ last'.op = "handle_interrupt"
           => /\ config' = config
              /\ inten' = inten
              /\ \A i \in Channels \ Pending(event_in) : event_in'[i] = event_in[i]
         ]_vars

\* C20: disable_interrupts(p) leaves CONFIG[n] and the interrupt-enable bit
\* of every channel in Event mode owned by another pin as they were; and
\* when p owns no channel it changes no CONFIG[n] and no interrupt-enable
\* bit.
C20_DisableFrame ==
    [][ last'.op = "disable_interrupts"
        => /\ \A i \in Channels :
                 ( /\ matches_all(config[i], MODE_Event)
                   /\ PSEL_read(config[i]) # last'.pin )
                 => /\ config'[i] = config[i]
                    /\ InterruptEnabled(i)' = InterruptEnabled(i)
           /\ ( OwnedBy(config, last'.pin) = {}
                => /\ config' = config
                   /\ inten' = inten )
      ]_vars

\* disable_interrupts on P0.00, which owned nothing, found a Disabled channel
\* while other pins owned channels
C20_Witness ==
    /\ last.op = "disable_interrupts"
    /\ last.pin = 0
    /\ last.owned = {}
    /\ is_ok(last.res)
    /\ FreeChannels(config) # Channels
    /\ inten # 0

\* C16: in Port::handle_interrupt the flag of a channel found pending is
\* written NotReady before the pin's handle_interrupt is called: when the
\* call is about to be made the run has cleared the channel, and the flag is
\* clear unless the hardware has set it again since.
C16_ClearBeforeDispatch ==
    isr.pc = "dispatch" =>
        /\ isr.i \in isr.cleared
        /\ \/ ~ matches_any(event_in[isr.i], EVENT_Ready)
           \/ isr.i \in isr.relatched

\* the handler is about to call the client of a pin for a channel whose
\* flag it has cleared, with the flag of a later channel still set
C16_Witness ==
    /\ isr.pc = "dispatch"
    /\ client[isr.pin] # NoClient
    /\ ~ matches_any(event_in[isr.i], EVENT_Ready)
    /\ \E j \in Channels : j > isr.i /\ matches_any(event_in[j], EVENT_Ready)

\* the calls a run has made for channel i
IsrCallsFor(calls, i) == { k \in 1 .. Len(calls) : calls[k].channel = i }

\* a run in progress has called at most once for each channel
C17_OncePerRun ==
    isr.pc # "idle" =>
        \A i \in Channels : Cardinality(IsrCallsFor(isr.calls, i)) <= 1

\* when a run returns: it has called at most once for each channel; the
\* flag of every channel the hardware latched again after the run cleared it
\* is set; and every flag that the run before had left latched again was
\* cleared by this run, which called the client of the owner if it has one
C17_OnReturn ==
    (last.op = "handle_interrupt" /\ isr.pc = "idle") =>
        /\ \A i \in Channels : Cardinality(IsrCallsFor(last.calls, i)) <= 1
        /\ \A i \in last.relatched : matches_any(event_in[i], EVENT_Ready)
        /\ \A i \in last.carried :
              /\ i \in last.fired
              /\ Cardinality(IsrCallsFor(last.calls, i)) =
                    IF client[PSEL_read(config[i])] # NoClient THEN 1 ELSE 0

\* C17: when the hardware sets the flag of channel i again after
\* Port::handle_interrupt has cleared it in the same run, the run still calls
\* the client for channel i once only, the flag is set when the run returns,
\* and the next run clears it and calls the client.
C17_Relatch == C17_OncePerRun /\ C17_OnReturn

\* a run has returned that cleared a flag latched again during the run
\* before and called the client for it, and during which the hardware
\* latched the same flag once more
C17_Witness ==
    /\ last.op = "handle_interrupt"
    /\ isr.pc = "idle"
    /\ \E i \in last.carried :
          /\ IsrCallsFor(last.calls, i) # {}
          /\ i \in last.relatched

\* the registers after the two calls made one after the other, in either
\* order
C18_Serial(start, call, other) ==
    { apply_call(apply_call(start, call), other),
      apply_call(apply_call(start, other), call) }

\* C18: when Port::handle_interrupt has run between two register accesses of
\* enable_interrupts(p) or disable_interrupts(p) and its client has called
\* enable_interrupts or disable_interrupts on another pin q, the registers
\* CONFIG[n] and the interrupt-enable bits when the call on p returns are
\* those that the two calls leave when made one after the other, in one
\* order or the other.
C18_Serializable ==
    [][ ( /\ fg.pc # "idle"
          /\ fg'.pc = "idle"
          /\ Len(fg.cb) = 1
          /\ fg.cb[1].pin # fg.call.pin )
        => [config |-> config', inten |-> inten']
              \in C18_Serial(fg.start, fg.call, fg.cb[1]) ]_vars

\* C21: in every state reached by completed enable_interrupts and
\* disable_interrupts calls, on any pins in any order, interrupt-enable bit i
\* is set if and only if CONFIG[i] is in Event mode, for every channel i.
C21_IntenConsistent ==
    \A i \in Channels : InterruptEnabled(i) <=> matches_all(config[i], MODE_Event)

\* disable_interrupts has released a channel of a pool that was full, and
\* has left the other channels in Event mode with their bits set
C21_Witness ==
    /\ last.op = "disable_interrupts"
    /\ is_ok(last.res)
    /\ last.res[2] \in last.owned
    /\ last.free = {}
    /\ FreeChannels(config) = {last.res[2]}
    /\ \A i \in Channels \ {last.res[2]} : InterruptEnabled(i)

====
